---- MODULE Spec2Model ----
(***************************************************************************)
(* Model of the SEO/GEO analysis tool (src/src/App.tsx): the App component *)
(* state (urls, results, isAnalyzing), the handleAnalyze orchestration     *)
(* loop and the analyzeUrl pipeline with its two collaborators (the        *)
(* /api/fetch-url proxy and the generative scoring service).               *)
(*                                                                         *)
(* Text is modelled as a sequence of one-character strings, so that        *)
(* split, trim and filter are computed as the code computes them.          *)
(* An AnalysisResult is a function from field names to values; a field the *)
(* object does not have is absent from the DOMAIN.                         *)
(***************************************************************************)
EXTENDS Integers, Sequences, FiniteSets, TLC

VARIABLES urls, results, isAnalyzing, runs, runCount, event, file

vars == <<urls, results, isAnalyzing, runs, runCount, event, file>>

(***************************************************************************)
(* Bounds                                                                  *)
(***************************************************************************)
\* number of times handleAnalyze may start a run in one behaviour
MaxRuns == 2

\* longest text (in characters) a spreadsheet import may leave in the textarea
MaxTextLen == 11

(***************************************************************************)
(* Sample inputs                                                           *)
(***************************************************************************)
UrlA == <<"h", "t", "t", "p", "a">>
UrlB == <<"b">>
NL == <<"\n">>
SP == <<" ">>

\* texts the user may type into the textarea
SampleTexts ==
    { <<>>,                          \* ""
      SP \o NL \o SP,                \* " \n "        only blank lines
      UrlA,                          \* "httpa"
      UrlA \o NL \o SP \o UrlA,      \* "httpa\n httpa" the same URL twice
      UrlA \o NL \o NL \o UrlB \o SP \* "httpa\n\nb "
    }

\* Response.statusText values of a non-OK proxy response ("" under HTTP/2)
StatusTexts == {"", "Not Found"}

TxtMalformed == "not json"
TxtNull == "null"
TxtFull == "{\"missingToC\":true,\"deepLinkableAnchors\":false,\"naturalLanguageHeadings\":true,\"highInformationDensity\":false,\"semanticHtml\":true,\"summary\":\"ok\"}"
TxtExtraUrl == "{\"missingToC\":true,\"summary\":\"ok\",\"url\":\"b\"}"
TxtExtraStatus == "{\"summary\":\"ok\",\"status\":\"pending\",\"error\":\"x\"}"

\* response.text values the scoring service may deliver
ScoringTexts == {"", TxtMalformed, TxtNull, TxtFull, TxtExtraUrl, TxtExtraStatus}

(***************************************************************************)
(* String helpers: String.prototype.trim, split('\n')                      *)
(***************************************************************************)
WhiteSpace == {" ", "\t", "\n", "\r"}

RECURSIVE TrimStart(_)
TrimStart(s) ==
    IF s # <<>> /\ Head(s) \in WhiteSpace THEN TrimStart(Tail(s)) ELSE s

RECURSIVE TrimEnd(_)
TrimEnd(s) ==
    IF s # <<>> /\ s[Len(s)] \in WhiteSpace
    THEN TrimEnd(SubSeq(s, 1, Len(s) - 1))
    ELSE s

trim(s) == TrimEnd(TrimStart(s))

RECURSIVE split(_)
split(s) ==
    IF \A i \in 1..Len(s) : s[i] # "\n"
    THEN <<s>>
    ELSE LET i == CHOOSE j \in 1..Len(s) :
                     s[j] = "\n" /\ \A h \in 1..(j - 1) : s[h] # "\n"
         IN  <<SubSeq(s, 1, i - 1)>> \o split(SubSeq(s, i + 1, Len(s)))

MapTrim(lines) == [k \in 1..Len(lines) |-> trim(lines[k])]

NonEmpty(u) == Len(u) > 0

\* urls.split('\n').map(u => u.trim()).filter(u => u.length > 0)
UrlListOf(text) == SelectSeq(MapTrim(split(text)), NonEmpty)

(***************************************************************************)
(* AnalysisResult records                                                  *)
(***************************************************************************)
Criteria == {"missingToC", "deepLinkableAnchors", "naturalLanguageHeadings",
             "highInformationDensity", "semanticHtml"}

ExpectedFields == Criteria \cup {"summary"}

PendingRecord(url) ==
    [url |-> url, status |-> "pending",
     missingToC |-> FALSE, deepLinkableAnchors |-> FALSE,
     naturalLanguageHeadings |-> FALSE, highInformationDensity |-> FALSE,
     semanticHtml |-> FALSE, summary |-> ""]

ErrorRecord(url, message) ==
    [url |-> url, status |-> "error",
     missingToC |-> FALSE, deepLinkableAnchors |-> FALSE,
     naturalLanguageHeadings |-> FALSE, highInformationDensity |-> FALSE,
     semanticHtml |-> FALSE, summary |-> "", error |-> message]

(***************************************************************************)
(* JSON.parse on the texts the scoring service delivers.  A result is      *)
(* either a thrown SyntaxError or the parsed value; an object value is a   *)
(* function from its keys, null has no own keys.                           *)
(***************************************************************************)
EmptyObject == <<>>

JSONparse(text) ==
    CASE text = "{}" ->
            [ok |-> TRUE, isObject |-> TRUE, fields |-> EmptyObject]
      [] text = TxtNull ->
            [ok |-> TRUE, isObject |-> FALSE, fields |-> EmptyObject]
      [] text = TxtFull ->
            [ok |-> TRUE, isObject |-> TRUE,
             fields |-> [missingToC |-> TRUE, deepLinkableAnchors |-> FALSE,
                         naturalLanguageHeadings |-> TRUE,
                         highInformationDensity |-> FALSE,
                         semanticHtml |-> TRUE, summary |-> "ok"]]
      [] text = TxtExtraUrl ->
            [ok |-> TRUE, isObject |-> TRUE,
             fields |-> [missingToC |-> TRUE, summary |-> "ok", url |-> UrlB]]
      [] text = TxtExtraStatus ->
            [ok |-> TRUE, isObject |-> TRUE,
             fields |-> [summary |-> "ok", status |-> "pending", error |-> "x"]]
      [] OTHER ->
            [ok |-> FALSE, isObject |-> FALSE, fields |-> EmptyObject,
             message |-> "Unexpected token in JSON"]
\* variant: response.text without the || '{}' fallback
TextOrBracesNoFallback(hasText, text) == text

\* response.text || '{}'
TextOrBraces(hasText, text) == IF hasText /\ text # "" THEN text ELSE "{}"

\* { url, status: 'success', ...data }: later properties win
SuccessRecord(url, data) == data @@ [url |-> url, status |-> "success"]

(***************************************************************************)
(* Collaborator replies.  A reply is what an awaited call settles with.    *)
(***************************************************************************)
\* fetch('/api/fetch-url'): rejects, or resolves with a Response (ok or not)
FetchReplies ==
    {[kind |-> "fetchReject", text |-> "Failed to fetch"],
     [kind |-> "ok", text |-> "OK"]}
    \cup {[kind |-> "notOk", text |-> s] : s \in StatusTexts}

\* fetchResponse.json(): rejects, or resolves with a body with or without html
JsonReplies ==
    {[kind |-> "jsonReject", text |-> "Unexpected end of JSON input"],
     [kind |-> "noHtml", text |-> ""],
     [kind |-> "html", text |-> ""]}

\* ai.models.generateContent: rejects, or resolves with a response whose text
\* is undefined or a string
ScoreReplies ==
    {[kind |-> "scoreReject", text |-> "quota exceeded"],
     [kind |-> "responseNoText", text |-> ""]}
    \cup {[kind |-> "response", text |-> t] : t \in ScoringTexts}

FailureKinds == {"fetchReject", "notOk", "jsonReject", "noHtml", "scoreReject"}

(***************************************************************************)
(* analyzeUrl: the try block up to each await, and the catch clause.       *)
(* A completion is "await" (suspended at the next call), "return" or      *)
(* "throw".                                                                *)
(***************************************************************************)
Await(pc) == [type |-> "await", pc |-> pc]
Return(value) == [type |-> "return", value |-> value]
Throw(message) == [type |-> "throw", message |-> message]

\* lines 74-84: the fetch settles; a non-OK response throws
AfterFetch(reply) ==
    CASE reply.kind = "fetchReject" -> Throw(reply.text)
      [] reply.kind = "notOk" ->
            Throw("Failed to fetch page content: " \o reply.text)
      [] OTHER -> Await("json")

\* lines 84-92: the body is read; html.substring throws when html is missing
AfterJson(reply) ==
    CASE reply.kind = "jsonReject" -> Throw(reply.text)
      [] reply.kind = "noHtml" ->
            Throw("Cannot read properties of undefined (reading 'substring')")
      [] OTHER -> Await("score")

\* lines 87-125: the scoring call settles; its text is parsed and merged
AfterScore(url, reply) ==
    IF reply.kind = "scoreReject"
    THEN Throw(reply.text)
    ELSE LET parsed == JSONparse(TextOrBraces(reply.kind = "response", reply.text))
         IN  IF parsed.ok
             THEN Return(SuccessRecord(url, parsed.fields))
             ELSE Throw(parsed.message)
\* variant: no catch clause, a throw leaves analyzeUrl
CatchClauseNone(url, completion) == completion

\* lines 126-139: catch (error) { return { url, status: 'error', ... } }
CatchClause(url, completion) ==
    IF completion.type = "throw"
    THEN Return(ErrorRecord(url, completion.message))
    ELSE completion

(***************************************************************************)
(* handleAnalyze                                                           *)
(***************************************************************************)
\* variant: a record already in the list for the same line is kept
PendingListKeep(urlList) ==
    [k \in 1..Len(urlList) |->
        IF k <= Len(results) /\ results[k].url = urlList[k]
        THEN results[k]
        ELSE PendingRecord(urlList[k])]

\* line 147: urlList.map(url => ({ url, status: 'pending', ... }))
PendingList(urlList) == [k \in 1..Len(urlList) |-> PendingRecord(urlList[k])]
\* variant: a result that matches no record is added to the list
ReplaceByUrlUpsert(prev, url, result) ==
    IF \E k \in 1..Len(prev) : prev[k].url = url
    THEN [k \in 1..Len(prev) |-> IF prev[k].url = url THEN result ELSE prev[k]]
    ELSE Append(prev, result)

\* line 162: prev.map(r => r.url === url ? result : r)
ReplaceByUrl(prev, url, result) ==
    [k \in 1..Len(prev) |-> IF prev[k].url = url THEN result ELSE prev[k]]
\* variant: disabled={!urls.trim()}
StartDisabledBlankOnly == trim(urls) = <<>>

\* line 259: disabled={isAnalyzing || !urls.trim()}
StartDisabled == isAnalyzing \/ trim(urls) = <<>>

\* the invocation of handleAnalyze started by this call: it runs synchronously
\* up to the first await, which is the fetch of the first URL
NewRun(urlList) ==
    [urlList |-> urlList, i |-> 1, pc |-> "fetch",
     newResults |-> <<>>, fetchLog |-> <<urlList[1]>>, replies |-> <<>>]

Live(run) == run.pc \in {"fetch", "json", "score"}
\* variant: without the early return of line 144 the empty list is published
handleAnalyzeNoReturn ==
    LET urlList == UrlListOf(urls)
    IN  /\ event' = "handleAnalyze"
        /\ UNCHANGED <<urls, file>>
        /\ IF Len(urlList) = 0
           THEN /\ results' = <<>>
                /\ isAnalyzing' = FALSE
                /\ UNCHANGED <<runs, runCount>>
           ELSE /\ runCount < MaxRuns
                /\ runCount' = runCount + 1
                /\ isAnalyzing' = TRUE
                /\ results' = PendingList(urlList)
                /\ runs' = Append(SelectSeq(runs, Live), NewRun(urlList))

\* lines 142-160, up to the first await
handleAnalyze ==
    LET urlList == UrlListOf(urls)
    IN  /\ event' = "handleAnalyze"
        /\ UNCHANGED <<urls, file>>
        /\ IF Len(urlList) = 0
           THEN UNCHANGED <<results, isAnalyzing, runs, runCount>>
           ELSE /\ runCount < MaxRuns
                /\ runCount' = runCount + 1
                /\ isAnalyzing' = TRUE
                /\ results' = PendingList(urlList)
                /\ runs' = Append(SelectSeq(runs, Live), NewRun(urlList))

\* variant: the loop reads the current text instead of its urlList
LoopUrlLive(run, k) ==
    IF k <= Len(UrlListOf(urls)) THEN UrlListOf(urls)[k] ELSE run.urlList[k]

\* line 159: for (const url of urlList), the k-th element
LoopUrl(run, k) == run.urlList[k]

\* lines 160-165: analyzeUrl has settled for run r; the reply that ended the
\* analysis of the current URL is kept with the run
Resume(r, reply, completion) ==
    LET run == runs[r]
        url == run.urlList[run.i]
    IN  CASE completion.type = "await" ->
                /\ runs' = [runs EXCEPT ![r].pc = completion.pc]
                /\ UNCHANGED <<results, isAnalyzing>>
          [] completion.type = "throw" ->
                /\ runs' = [runs EXCEPT ![r].pc = "rejected"]
                /\ UNCHANGED <<results, isAnalyzing>>
          [] OTHER ->
                /\ results' = ReplaceByUrl(results, url, completion.value)
                /\ IF run.i < Len(run.urlList)
                   THEN /\ runs' = [runs EXCEPT
                               ![r].newResults = Append(@, completion.value),
                               ![r].replies = Append(@, reply),
                               ![r].i = @ + 1,
                               ![r].pc = "fetch",
                               ![r].fetchLog = Append(@, LoopUrl(run, run.i + 1))]
                        /\ UNCHANGED isAnalyzing
                   ELSE /\ runs' = [runs EXCEPT
                               ![r].newResults = Append(@, completion.value),
                               ![r].replies = Append(@, reply),
                               ![r].pc = "done"]
                        /\ isAnalyzing' = FALSE

(***************************************************************************)
(* Spreadsheets.  A sheet is the sequence of its data rows as              *)
(* XLSX.utils.sheet_to_json returns them: a row is the sequence of its     *)
(* non-empty cells in column order, each with the header of its column.    *)
(* A cell value is a string whose characters are modelled (t = "s"), a     *)
(* string the model does not look into (t = "a", none of which starts with *)
(* http), a number (t = "n"), or undefined (t = "u").                      *)
(***************************************************************************)
Str(chars) == [t |-> "s", v |-> chars]
Atom(string) == [t |-> "a", v |-> string]
Num(n) == [t |-> "n", v |-> n]
Undefined == [t |-> "u", v |-> 0]

Cell(header, cell) == [h |-> header, c |-> cell]

Http == <<"h", "t", "t", "p">>

\* url.startsWith('http')
startsWith(chars, prefix) ==
    /\ Len(chars) >= Len(prefix)
    /\ SubSeq(chars, 1, Len(prefix)) = prefix

\* JavaScript truthiness of a cell value
Truthy(cell) ==
    CASE cell.t = "s" -> cell.v # <<>>
      [] cell.t = "a" -> cell.v # ""
      [] cell.t = "n" -> cell.v # 0
      [] OTHER -> FALSE

\* row[header]
Get(row, header) ==
    IF \E i \in 1..Len(row) : row[i].h = header
    THEN row[CHOOSE i \in 1..Len(row) : row[i].h = header].c
    ELSE Undefined

\* line 53: row.URL || Object.values(row)[0]
PickUrl(row) ==
    IF Truthy(Get(row, "URL"))
    THEN Get(row, "URL")
    ELSE IF Len(row) > 0 THEN row[1].c ELSE Undefined

\* line 54: typeof url === 'string' && url.startsWith('http')
IsHttpString(cell) == cell.t = "s" /\ startsWith(cell.v, Http)

\* variant: join('') puts nothing between the strings
RECURSIVE joinNoSeparator(_)
joinNoSeparator(strings) ==
    IF Len(strings) = 0 THEN <<>>
    ELSE strings[1] \o joinNoSeparator(Tail(strings))

\* Array.prototype.join('\n') of strings
RECURSIVE join(_)
join(strings) ==
    IF Len(strings) = 0 THEN <<>>
    ELSE IF Len(strings) = 1 THEN strings[1]
    ELSE strings[1] \o NL \o join(Tail(strings))

\* lines 52-55
ExtractedUrls(rows) ==
    LET picked == [k \in 1..Len(rows) |-> PickUrl(rows[k])]
        kept == SelectSeq(picked, IsHttpString)
    IN  join([k \in 1..Len(kept) |-> kept[k].v])

\* variant: the import replaces the text
AppendedTextReplace(prev, extractedUrls) == extractedUrls

\* line 57: prev ? `${prev}\n${extractedUrls}` : extractedUrls
AppendedText(prev, extractedUrls) ==
    IF prev # <<>> THEN prev \o NL \o extractedUrls ELSE extractedUrls

\* r.field ? 'Yes' : 'No'
YesNo(r, field) ==
    IF field \in DOMAIN r /\ r[field] = TRUE THEN "Yes" ELSE "No"

\* lines 169-179: the row of one record; a property that is undefined
\* leaves no cell
ExportRow(r) ==
    <<Cell("URL", Str(r.url)),
      Cell("Status", Atom(r.status)),
      Cell("Missing ToC", Atom(YesNo(r, "missingToC"))),
      Cell("Deep-Linkable Anchors", Atom(YesNo(r, "deepLinkableAnchors"))),
      Cell("Natural Language Headings", Atom(YesNo(r, "naturalLanguageHeadings"))),
      Cell("High Info Density", Atom(YesNo(r, "highInformationDensity"))),
      Cell("Semantic HTML", Atom(YesNo(r, "semanticHtml")))>>
    \o (IF "summary" \in DOMAIN r
        THEN <<Cell("Summary", Atom(r.summary))>> ELSE <<>>)
    \o <<Cell("Error", Atom(IF "error" \in DOMAIN r THEN r.error ELSE ""))>>

\* lines 169-184: the sheet written to the file
ExportSheet(list) == [k \in 1..Len(list) |-> ExportRow(list[k])]

\* workbooks the user may drop
SampleSheets ==
    { \* a URL column behind another column; the second URL is no http URL
      << <<Cell("Name", Str(UrlB)), Cell("URL", Str(UrlA))>>,
         <<Cell("URL", Str(UrlB))>> >>,
      \* an unnamed first column, its value ends with a blank
      << <<Cell("__EMPTY", Str(UrlA \o SP))>> >>,
      \* numbers only
      << <<Cell("Name", Num(7))>> >> }

(***************************************************************************)
(* Actions                                                                 *)
(***************************************************************************)
Init ==
    /\ urls = <<>>
    /\ results = <<>>
    /\ isAnalyzing = FALSE
    /\ runs = <<>>
    /\ runCount = 0
    /\ event = "init"
    /\ file = <<>>

\* line 253: the textarea's onChange
OnChange ==
    \E text \in SampleTexts :
        /\ urls' = text
        /\ event' = "onChange"
        /\ UNCHANGED <<results, isAnalyzing, runs, runCount, file>>

\* lines 257-260: a click on the Start Analysis button
ClickStart ==
    /\ ~StartDisabled
    /\ handleAnalyze
\* variant: clearing also ends the analysing state
ClearResultsCancels ==
    /\ Len(results) > 0
    /\ results' = <<>>
    /\ isAnalyzing' = FALSE
    /\ event' = "clear"
    /\ UNCHANGED <<urls, runs, runCount, file>>

\* lines 201-208: the Clear Results button, rendered while results is non-empty
ClearResults ==
    /\ Len(results) > 0
    /\ results' = <<>>
    /\ event' = "clear"
    /\ UNCHANGED <<urls, isAnalyzing, runs, runCount, file>>

\* lines 42-60: the reader's onload for a dropped workbook
Import(rows) ==
    /\ Len(AppendedText(urls, ExtractedUrls(rows))) <= MaxTextLen
    /\ urls' = AppendedText(urls, ExtractedUrls(rows))
    /\ event' = "onDrop"
    /\ UNCHANGED <<results, isAnalyzing, runs, runCount, file>>

OnDrop == \E rows \in SampleSheets : Import(rows)

\* an awaited call of run r settles with reply; analyzeUrl continues
Settle(r, reply, completion) ==
    /\ event' = "settle"
    /\ UNCHANGED <<urls, runCount, file>>
    /\ Resume(r, reply, completion)

FetchSettles ==
    \E r \in 1..Len(runs), reply \in FetchReplies :
        /\ runs[r].pc = "fetch"
        /\ Settle(r, reply,
                  CatchClause(runs[r].urlList[runs[r].i], AfterFetch(reply)))

JsonSettles ==
    \E r \in 1..Len(runs), reply \in JsonReplies :
        /\ runs[r].pc = "json"
        /\ Settle(r, reply,
                  CatchClause(runs[r].urlList[runs[r].i], AfterJson(reply)))

ScoreSettles ==
    \E r \in 1..Len(runs), reply \in ScoreReplies :
        /\ runs[r].pc = "score"
        /\ Settle(r, reply,
                  CatchClause(runs[r].urlList[runs[r].i],
                              AfterScore(runs[r].urlList[runs[r].i], reply)))

Next ==
    \/ OnChange
    \/ ClickStart
    \/ ClearResults
    \/ OnDrop
    \/ FetchSettles
    \/ JsonSettles
    \/ ScoreSettles

Spec == Init /\ [][Next]_vars

\* every awaited fetch, body read and scoring call eventually settles
SpecFair ==
    /\ Spec
    /\ WF_vars(FetchSettles)
    /\ WF_vars(JsonSettles)
    /\ WF_vars(ScoreSettles)

(***************************************************************************)
(* handleAnalyze called as a function, whatever the text holds: the button *)
(* is disabled for a blank text, a direct call reaches the early return of *)
(* line 144.                                                               *)
(***************************************************************************)
CallHandleAnalyze ==
    /\ ~isAnalyzing
    /\ handleAnalyze

NextHandler ==
    \/ Next
    \/ CallHandleAnalyze

SpecHandler == Init /\ [][NextHandler]_vars

(***************************************************************************)
(* Export and import of a workbook file.  Here file is the workbook the    *)
(* user has at hand: one of the sample workbooks, or the one written by    *)
(* the last export.  The behaviours start when a run has ended, with every *)
(* result list such a run leaves for the sample texts and FinalReplies.    *)
(* (exportToExcel leaves the App state as it is, Spec does without it.)    *)
(***************************************************************************)
\* the reply that ended the analysis of a line
FinalReplies ==
    {[kind |-> "notOk", text |-> "Not Found"],
     [kind |-> "response", text |-> TxtFull],
     [kind |-> "response", text |-> TxtExtraUrl]}

\* the record analyzeUrl returns when reply is the last reply it gets
Analyzed(url, reply) ==
    CatchClause(url, IF reply.kind = "notOk"
                     THEN AfterFetch(reply)
                     ELSE AfterScore(url, reply)).value

\* lines 159-163: the loop from its k-th iteration on
RECURSIVE Replayed(_, _, _, _)
Replayed(list, urlList, replies, k) ==
    IF k > Len(urlList)
    THEN list
    ELSE Replayed(ReplaceByUrl(list, urlList[k], Analyzed(urlList[k], replies[k])),
                  urlList, replies, k + 1)

InitSheet ==
    \E text \in SampleTexts :
        \E replies \in [1..Len(UrlListOf(text)) -> FinalReplies] :
            /\ Len(UrlListOf(text)) > 0
            /\ urls = text
            /\ results = Replayed(PendingList(UrlListOf(text)),
                                  UrlListOf(text), replies, 1)
            /\ isAnalyzing = FALSE
            /\ runs = <<[urlList |-> UrlListOf(text),
                         i |-> Len(UrlListOf(text)),
                         pc |-> "done",
                         newResults |->
                             [k \in 1..Len(UrlListOf(text)) |->
                                 Analyzed(UrlListOf(text)[k], replies[k])],
                         fetchLog |-> UrlListOf(text),
                         replies |-> replies]>>
            /\ runCount = 1
            /\ event = "settle"
            /\ file \in {<<>>} \cup {<<rows>> : rows \in SampleSheets}

\* lines 168-185: the Export Results button, rendered while results is non-empty
ExportToExcel ==
    /\ Len(results) > 0
    /\ file' = <<ExportSheet(results)>>
    /\ event' = "export"
    /\ UNCHANGED <<urls, results, isAnalyzing, runs, runCount>>

\* lines 42-60: the user drops the workbook at hand
OnDropFile ==
    /\ file # <<>>
    /\ Import(file[1])

NextSheet ==
    \/ OnChange
    \/ ClearResults
    \/ ExportToExcel
    \/ OnDropFile

SpecSheet == InitSheet /\ [][NextSheet]_vars

(***************************************************************************)
(* Vocabulary of the properties                                            *)
(***************************************************************************)
Terminal == {"success", "error"}

Statuses == {"pending"} \cup Terminal

LastRun == runs[Len(runs)]

\* run r's analysis of its current URL returns in this step
Completes(r) ==
    /\ runCount' = runCount
    /\ Len(runs'[r].newResults) = Len(runs[r].newResults) + 1

Restrict(f, S) == [k \in (DOMAIN f) \cap S |-> f[k]]

\* the reply carries a scoring response (the analysis got as far as parsing)
IsResponse(reply) == reply.kind \in {"response", "responseNoText"}

\* the parsed value of a scoring response that parses
ParsedFields(reply) ==
    JSONparse(TextOrBraces(reply.kind = "response", reply.text)).fields

Parses(reply) ==
    JSONparse(TextOrBraces(reply.kind = "response", reply.text)).ok

(***************************************************************************)
(* C1: a record's status changes exactly once during a run: once a record  *)
(* of the result list is success or error, no later completion of the same *)
(* run changes its status, and a status is always pending, success or      *)
(* error.                                                                  *)
(***************************************************************************)
C1_StatusChangesOnce ==
    [][ (runCount' = runCount /\ Len(results') = Len(results)) =>
          \A k \in 1..Len(results) :
              /\ results'[k].status \in Statuses
              /\ results[k].status \in Terminal =>
                     results'[k].status = results[k].status ]_vars

(***************************************************************************)
(* C2: when the analysis of the input line at position k completes, every  *)
(* record at another position of the result list is left unchanged, also   *)
(* one that carries the same url.                                          *)
(***************************************************************************)
C2_OnlyPositionKReplaced ==
    [][ \A r \in 1..Len(runs) :
          Completes(r) =>
              /\ Len(results') = Len(results)
              /\ \A j \in 1..Len(results) :
                     j # runs[r].i => results'[j] = results[j] ]_vars

(***************************************************************************)
(* C3: from the start of a run to its completion, unless the user cleared  *)
(* the list, the result list is as long as the run's input list and the    *)
(* record at each position k carries the k-th input line as its url.       *)
(***************************************************************************)
C3_LengthOrderUrl ==
    (Len(runs) > 0 /\ results # <<>>) =>
        /\ Len(results) = Len(LastRun.urlList)
        /\ \A k \in 1..Len(results) : results[k].url = LastRun.urlList[k]

(***************************************************************************)
(* C4: the record returned for a scoring response that parses has status   *)
(* success, the url passed to analyzeUrl, and from the response only the   *)
(* five criteria and the summary; any other field of the response is       *)
(* ignored.                                                                *)
(***************************************************************************)
C4_OnlySixFieldsTaken ==
    \A r \in 1..Len(runs) :
        \A k \in 1..Len(runs[r].newResults) :
            (IsResponse(runs[r].replies[k]) /\ Parses(runs[r].replies[k])) =>
                runs[r].newResults[k] =
                    Restrict(ParsedFields(runs[r].replies[k]), ExpectedFields)
                    @@ [url |-> runs[r].urlList[k], status |-> "success"]

(***************************************************************************)
(* C5: failure isolation.  The analyzer is invoked once per input line, in *)
(* input order; when retrieval or scoring fails for line i, the record of  *)
(* line i becomes error with a non-empty message, the records at the other *)
(* positions are not changed, and line i+1 is analysed next.               *)
(***************************************************************************)
C5_FailureIsolation ==
    [][ \A r \in 1..Len(runs) :
          (Completes(r) /\ runs'[r].replies[runs[r].i].kind \in FailureKinds) =>
              LET i == runs[r].i
                  run == runs'[r]
              IN  /\ run.fetchLog = SubSeq(run.urlList, 1, Len(run.fetchLog))
                  /\ i < Len(run.urlList) =>
                         (run.pc = "fetch" /\ Len(run.fetchLog) = i + 1)
                  /\ i = Len(run.urlList) =>
                         (run.pc = "done" /\ Len(run.fetchLog) = i)
                  /\ Len(results') = Len(results)
                  /\ i <= Len(results) =>
                         /\ results'[i].status = "error"
                         /\ "error" \in DOMAIN results'[i]
                         /\ results'[i].error # ""
                  /\ \A j \in 1..Len(results) :
                         j # i => results'[j] = results[j] ]_vars

(***************************************************************************)
(* C6: analyzeUrl never raises: whatever fails in retrieval (transport     *)
(* failure, non-OK response, unreadable body) or in scoring (service       *)
(* error, text that is not JSON), the call returns a record with the       *)
(* original url, status error, an error message, the five criteria false   *)
(* and an empty summary.                                                   *)
(***************************************************************************)
C6_AnalyzeNeverRaises ==
    \A r \in 1..Len(runs) :
        /\ runs[r].pc # "rejected"
        /\ Len(runs[r].replies) = Len(runs[r].newResults)
        /\ \A k \in 1..Len(runs[r].newResults) :
               (\/ runs[r].replies[k].kind \in FailureKinds
                \/ /\ runs[r].replies[k].kind = "response"
                   /\ runs[r].replies[k].text = TxtMalformed) =>
                   /\ DOMAIN runs[r].newResults[k] =
                          {"url", "status", "error"} \cup ExpectedFields
                   /\ runs[r].newResults[k].url = runs[r].urlList[k]
                   /\ runs[r].newResults[k].status = "error"
                   /\ \A c \in Criteria : runs[r].newResults[k][c] = FALSE
                   /\ runs[r].newResults[k].summary = ""

\* a run in which retrieval failed for the first line and scoring for the second
C6_Witness ==
    \E r \in 1..Len(runs) :
        /\ Len(runs[r].newResults) = 2
        /\ runs[r].replies[1].kind \in {"fetchReject", "notOk"}
        /\ runs[r].replies[2].kind \in {"scoreReject", "response"}
        /\ runs[r].replies[2].text \in {"quota exceeded", TxtMalformed}
        /\ runs[r].newResults[2].status = "error"

(***************************************************************************)
(* C7 as stated: whenever the response text cannot be parsed into a usable *)
(* object (absent, empty, not JSON, or null), the returned record has      *)
(* status success, no criterion true and no summary.                       *)
(***************************************************************************)
C7_UnparsableIsSuccess ==
    \A r \in 1..Len(runs) :
        \A k \in 1..Len(runs[r].newResults) :
            (\/ runs[r].replies[k].kind = "responseNoText"
             \/ /\ runs[r].replies[k].kind = "response"
                /\ runs[r].replies[k].text \in {"", TxtMalformed, TxtNull}) =>
                /\ runs[r].newResults[k].status = "success"
                /\ \A c \in Criteria \cap DOMAIN runs[r].newResults[k] :
                       runs[r].newResults[k][c] # TRUE
                /\ "summary" \notin DOMAIN runs[r].newResults[k]

(***************************************************************************)
(* C7 amended: a response text that is absent, empty or null gives a       *)
(* record with status success, the original url and neither criteria nor   *)
(* summary; a non-empty text that is not JSON gives a record with status   *)
(* error.                                                                  *)
(***************************************************************************)
C7_EmptyTextIsSuccess ==
    \A r \in 1..Len(runs) :
        \A k \in 1..Len(runs[r].newResults) :
            /\ (\/ runs[r].replies[k].kind = "responseNoText"
                \/ /\ runs[r].replies[k].kind = "response"
                   /\ runs[r].replies[k].text \in {"", TxtNull}) =>
                   runs[r].newResults[k] =
                       [url |-> runs[r].urlList[k], status |-> "success"]
            /\ (/\ runs[r].replies[k].kind = "response"
                /\ runs[r].replies[k].text = TxtMalformed) =>
                   runs[r].newResults[k].status = "error"

\* a run that got no text for its first line and text that is not JSON for
\* its second
C7_Witness ==
    \E r \in 1..Len(runs) :
        /\ Len(runs[r].newResults) = 2
        /\ runs[r].replies[1].kind = "responseNoText"
        /\ runs[r].newResults[1].status = "success"
        /\ runs[r].replies[2] = [kind |-> "response", text |-> TxtMalformed]
        /\ runs[r].newResults[2].status = "error"

(***************************************************************************)
(* C8: strictly sequential processing: at most one analyzeUrl invocation   *)
(* is in flight (so at most one outstanding fetch and one outstanding      *)
(* scoring call), a run has started the analysis of line i+1 only when the *)
(* analysis of line i has returned, and no run starts while isAnalyzing is *)
(* true.                                                                   *)
(***************************************************************************)
C8_StrictlySequential ==
    /\ [](/\ Cardinality({r \in 1..Len(runs) : Live(runs[r])}) <= 1
          /\ Cardinality({r \in 1..Len(runs) :
                              runs[r].pc \in {"fetch", "json"}}) <= 1
          /\ Cardinality({r \in 1..Len(runs) : runs[r].pc = "score"}) <= 1
          /\ \A r \in 1..Len(runs) :
                 /\ Live(runs[r]) => isAnalyzing
                 /\ Len(runs[r].fetchLog) =
                        Len(runs[r].newResults) + (IF Live(runs[r]) THEN 1 ELSE 0))
    /\ [][runCount' # runCount => ~isAnalyzing]_vars

\* the second run awaits the scoring call of its second line
C8_Witness ==
    /\ runCount = 2
    /\ \E r \in 1..Len(runs) :
           /\ runs[r].pc = "score"
           /\ runs[r].i = 2
           /\ Len(runs[r].newResults) = 1

(***************************************************************************)
(* C9: the start of a run publishes, before any analyzeUrl call of the run *)
(* returns, one record per input line in input order, each with status     *)
(* pending, the five criteria false, an empty summary and no error; also   *)
(* when the list held the records of an earlier run.                       *)
(***************************************************************************)
C9_StartPublishesPending ==
    /\ [][runCount' = runCount + 1 =>
            /\ runs'[Len(runs')].newResults = <<>>
            /\ Len(results') = Len(UrlListOf(urls))
            /\ \A k \in 1..Len(results') :
                   results'[k] =
                       [url |-> UrlListOf(urls)[k], status |-> "pending",
                        missingToC |-> FALSE, deepLinkableAnchors |-> FALSE,
                        naturalLanguageHeadings |-> FALSE,
                        highInformationDensity |-> FALSE,
                        semanticHtml |-> FALSE, summary |-> ""]]_vars
    /\ []((Len(runs) > 0 /\ LastRun.newResults = <<>> /\ LastRun.i = 1) =>
              \A k \in 1..Len(results) :
                  /\ results[k].status = "pending"
                  /\ "error" \notin DOMAIN results[k])

\* the second run has just started on two lines
C9_Witness ==
    /\ runCount = 2
    /\ event = "handleAnalyze"
    /\ Len(results) = 2
    /\ LastRun.newResults = <<>>
    /\ \A k \in 1..Len(results) : results[k].status = "pending"

(***************************************************************************)
(* C10: when the text holds no non-blank line, handleAnalyze changes       *)
(* neither the result list nor isAnalyzing and starts no analyzeUrl call.  *)
(***************************************************************************)
C10_BlankInputNoOp ==
    [][(event' = "handleAnalyze" /\ urls' = urls /\ UrlListOf(urls) = <<>>) =>
           UNCHANGED <<results, isAnalyzing, runs, runCount>>]_vars

\* handleAnalyze has returned on a blank text while the list holds records
C10_Witness ==
    /\ event = "handleAnalyze"
    /\ UrlListOf(urls) = <<>>
    /\ Len(results) > 0
    /\ ~isAnalyzing

(***************************************************************************)
(* C11: completion.  If every awaited call eventually settles, every run   *)
(* ends with isAnalyzing false; isAnalyzing is true exactly while a run is *)
(* between its start and the return of its last line's analysis; and when  *)
(* isAnalyzing becomes false every record of the result list is success or *)
(* error.                                                                  *)
(***************************************************************************)
C11_Completion ==
    /\ isAnalyzing ~> ~isAnalyzing
    /\ [](isAnalyzing <=> \E r \in 1..Len(runs) : Live(runs[r]))
    /\ [][(isAnalyzing /\ ~isAnalyzing') =>
              \A k \in 1..Len(results') : results'[k].status \in Terminal]_vars

(***************************************************************************)
(* C12: clearing does not cancel.  A clear leaves the run and isAnalyzing  *)
(* as they are; after a clear, each return of analyzeUrl is still followed *)
(* by the call for the next input line, in order, and isAnalyzing is false *)
(* only once the last line's analysis has returned.                        *)
(***************************************************************************)
C12_ClearDoesNotCancel ==
    /\ [][(results # <<>> /\ results' = <<>>) =>
              (runs' = runs /\ isAnalyzing' = isAnalyzing)]_vars
    /\ [][\A r \in 1..Len(runs) :
              (Completes(r) /\ results = <<>>) =>
                  /\ runs[r].i < Len(runs[r].urlList) =>
                         /\ runs'[r].pc = "fetch"
                         /\ runs'[r].fetchLog =
                                SubSeq(runs[r].urlList, 1, runs[r].i + 1)
                         /\ isAnalyzing'
                  /\ runs[r].i = Len(runs[r].urlList) =>
                         /\ runs'[r].pc = "done"
                         /\ runs'[r].fetchLog = runs[r].urlList
                         /\ ~isAnalyzing']_vars
    /\ []((~isAnalyzing /\ runs # <<>>) =>
              (LastRun.pc = "done" /\ LastRun.fetchLog = LastRun.urlList))

\* a run over two lines has ended after the list was cleared under it
C12_Witness ==
    /\ event = "settle"
    /\ results = <<>>
    /\ ~isAnalyzing
    /\ runs # <<>>
    /\ LastRun.pc = "done"
    /\ Len(LastRun.fetchLog) = 2

(***************************************************************************)
(* C13: in every record of the result list, a status other than success    *)
(* comes with no criterion true and no summary text, and an error message  *)
(* is present only when the status is error.                               *)
(***************************************************************************)
C13_FieldInvariant ==
    \A k \in 1..Len(results) :
        /\ results[k].status # "success" =>
               /\ \A c \in Criteria \cap DOMAIN results[k] :
                      results[k][c] = FALSE
               /\ "summary" \in DOMAIN results[k] => results[k].summary = ""
        /\ "error" \in DOMAIN results[k] => results[k].status = "error"

(***************************************************************************)
(* C15: progress prefix.  While the list of a run is not cleared, the      *)
(* records at the positions whose analysis has returned are success or     *)
(* error and the records at the positions the loop has not reached are     *)
(* pending.                                                                *)
(***************************************************************************)
C15_ProgressPrefix ==
    (runs # <<>> /\ results # <<>>) =>
        \A k \in 1..Len(results) :
            IF k <= Len(LastRun.newResults)
            THEN results[k].status \in Terminal
            ELSE results[k].status = "pending"

(***************************************************************************)
(* C17: whenever isAnalyzing is false, no record of the result list is     *)
(* pending.                                                                *)
(***************************************************************************)
C17_IdleNoPending ==
    ~isAnalyzing => \A k \in 1..Len(results) : results[k].status # "pending"

(***************************************************************************)
(* C18: a list cleared during a run stays empty for the rest of the run:   *)
(* the list becomes non-empty only in the step that starts a run.          *)
(***************************************************************************)
C18_ClearedStaysEmpty ==
    [][(results = <<>> /\ results' # <<>>) => runCount' = runCount + 1]_vars

\* the analysis of the first line has just returned into a cleared list
C18_Witness ==
    /\ event = "settle"
    /\ results = <<>>
    /\ isAnalyzing
    /\ LastRun.pc = "fetch"
    /\ LastRun.i = 2
    /\ Len(LastRun.newResults) = 1

(***************************************************************************)
(* C19: a run works on the urlList taken from the text when it started: a  *)
(* change of the text (edit or import) changes neither the runs nor the    *)
(* result list, a run keeps its urlList, and the URLs it has asked the     *)
(* proxy for are always a prefix of that urlList.                          *)
(***************************************************************************)
C19_RunUsesSnapshot ==
    /\ [][urls' # urls => UNCHANGED <<runs, results, isAnalyzing>>]_vars
    /\ [][runCount' = runCount + 1 =>
              runs'[Len(runs')].urlList = UrlListOf(urls)]_vars
    /\ [][runCount' = runCount =>
              /\ Len(runs') = Len(runs)
              /\ \A r \in 1..Len(runs) : runs'[r].urlList = runs[r].urlList]_vars
    /\ [](\A r \in 1..Len(runs) :
              runs[r].fetchLog =
                  SubSeq(runs[r].urlList, 1, Len(runs[r].fetchLog)))

\* the run has gone on to its second line after the text was changed
C19_Witness ==
    /\ runs # <<>>
    /\ LastRun.pc = "fetch"
    /\ LastRun.i = 2
    /\ event = "settle"
    /\ results # <<>>
    /\ UrlListOf(urls) # LastRun.urlList
    /\ Len(UrlListOf(urls)) >= 2
    /\ UrlListOf(urls)[2] # LastRun.urlList[2]

(***************************************************************************)
(* What a sheet contributes according to C16: per row the value of the URL *)
(* column or, when the row has none, of its first column; kept when it is  *)
(* a string that starts with http.                                         *)
(***************************************************************************)
RowValue(row) ==
    IF \E i \in 1..Len(row) : row[i].h = "URL"
    THEN row[CHOOSE i \in 1..Len(row) : row[i].h = "URL"].c
    ELSE row[1].c

KeptCell(cell) == cell.t = "s" /\ startsWith(cell.v, Http)

SheetValues(rows) ==
    LET kept == SelectSeq([k \in 1..Len(rows) |-> RowValue(rows[k])], KeptCell)
    IN  [k \in 1..Len(kept) |-> kept[k].v]

RECURSIVE LinesOfAll(_)
LinesOfAll(values) ==
    IF Len(values) = 0 THEN <<>>
    ELSE UrlListOf(Head(values)) \o LinesOfAll(Tail(values))

UrlFields(list) == [k \in 1..Len(list) |-> list[k].url]

====
